---------------------------- MODULE Spec2Model ----------------------------
(***************************************************************************)
(* Authentication session controller (AuthProvider, context/AuthContext)   *)
(* over the authentication service (services/auth.ts), the Firebase        *)
(* credential service (auth.currentUser, onAuthStateChanged) and the       *)
(* Firestore profile store (collection "users").                           *)
(*                                                                         *)
(* Every async function is cut at its awaits: one action starts the        *)
(* operation (the synchronous prefix up to the first await) and one action *)
(* per await delivers the response of the backend and runs the code up to  *)
(* the next await or to the end (catch and finally blocks included).       *)
(* Responses of different requests arrive in any order.                    *)
(***************************************************************************)
EXTENDS Naturals, Sequences, FiniteSets

\* ------------------------------------------------------------------ bounds
MaxOps == 2          \* operations of the controller in flight at once
MaxLoads == 1        \* profile loads of the session-change handler in flight
MaxQueue == 1        \* session-change notifications not yet delivered

Uids == {"u1", "u2"}
None == "none"
Roles == {"patient", "clinician"}

NoProfile == [uid |-> None, role |-> None]
MkProfile(u, r) == [uid |-> u, role |-> r]
Profiles == {MkProfile(u, r) : u \in Uids, r \in Roles}

\* ------------------------------------------------- messages of auth.ts
MsgEmailInUse == "An account with this email already exists."
MsgInvalidEmail == "Please enter a valid email address."
MsgWeakPassword == "Password should be at least 6 characters long."
MsgNotAllowed == "Email/password accounts are not enabled."
MsgSignUpDefault == "Failed to create account. Please try again."
MsgUserNotFound == "No account found with this email address."
MsgWrongPassword == "Incorrect password. Please try again."
MsgUserDisabled == "This account has been disabled. Please contact support."
MsgTooMany == "Too many failed attempts. Please try again later."
MsgSignInDefault == "Failed to sign in. Please check your credentials."
MsgProfileNotFound == "User profile not found. Please contact support."
MsgSignOut == "Failed to sign out. Please try again."
MsgPopupCancelled == "Sign in was cancelled. Please try again."
MsgPopupBlocked == "Popup was blocked by your browser. Please allow popups and try again."
MsgAccountExists == "An account already exists with this email address. Please sign in with your existing method."
MsgGoogleDefault == "Failed to sign in with Google. Please try again."
MsgRedirectInit == "Failed to initiate Google sign in. Please try again."
MsgRedirectResult == "Failed to complete Google sign in. Please try again."

\* A thrown value: the code the catch blocks switch on, and the message.
\* An Error made with new Error(message) has no code ("undefined").
Thrown(c, m) == [code |-> c, message |-> m]
NewError(m) == Thrown("undefined", m)
FirebaseError(c) == Thrown(c, "Firebase: Error")

\* Codes the credential service and the profile store fail with.
\* (a sample of the codes of each call: one the catch block maps, and one it
\* does not)
SignInCodes == {"auth/user-not-found", "auth/wrong-password", "auth/network-request-failed"}
SignUpCodes == {"auth/email-already-in-use", "auth/network-request-failed"}
PopupCodes == {"auth/popup-closed-by-user", "auth/network-request-failed"}
StoreCode == "unavailable"

\* catch block of signUp
SignUpCatch(err) ==
    CASE err.code = "auth/email-already-in-use" -> NewError(MsgEmailInUse)
      [] err.code = "auth/invalid-email" -> NewError(MsgInvalidEmail)
      [] err.code = "auth/weak-password" -> NewError(MsgWeakPassword)
      [] err.code = "auth/operation-not-allowed" -> NewError(MsgNotAllowed)
      [] OTHER -> NewError(MsgSignUpDefault)

\* catch block of signIn
SignInCatch(err) ==
    CASE err.code = "auth/user-not-found" -> NewError(MsgUserNotFound)
      [] err.code = "auth/wrong-password" -> NewError(MsgWrongPassword)
      [] err.code = "auth/invalid-email" -> NewError(MsgInvalidEmail)
      [] err.code = "auth/user-disabled" -> NewError(MsgUserDisabled)
      [] err.code = "auth/too-many-requests" -> NewError(MsgTooMany)
      [] OTHER -> NewError(MsgSignInDefault)

\* catch block of signInWithGoogle
GoogleCatch(err) ==
    CASE err.code = "auth/popup-closed-by-user" -> NewError(MsgPopupCancelled)
      [] err.code = "auth/popup-blocked" -> NewError(MsgPopupBlocked)
      [] err.code = "auth/cancelled-popup-request" -> NewError(MsgPopupCancelled)
      [] err.code = "auth/account-exists-with-different-credential" -> NewError(MsgAccountExists)
      [] OTHER -> NewError(MsgGoogleDefault)

\* catch blocks of signOutUser, signInWithGoogleRedirect, handleGoogleRedirectResult
SignOutCatch(err) == NewError(MsgSignOut)
RedirectInitCatch(err) == NewError(MsgRedirectInit)
RedirectResultCatch(err) == NewError(MsgRedirectResult)

\* handleAuthError: every value the service throws is an Error instance
HandleAuthError(err) == err.message

\* ------------------------------------------------------- consent manager
\* The kinds of consent, each an "enabled" flag of the preferences.
ConsentTypes == {"analytics", "marketing", "dataProcessing"}
MaxClock == 2
MaxQueued == 1
MaxTracked == 1
MaxFields == 2
NoPreferences == [absent |-> TRUE]
Preferences ==
    [analytics : BOOLEAN, marketing : BOOLEAN, dataProcessing : BOOLEAN,
     lastUpdated : 0..MaxClock]

\* Partial<ConsentPreferences>: new values for some of the flags.
Updates ==
    UNION {[D -> BOOLEAN] : D \in {E \in SUBSET ConsentTypes : Cardinality(E) <= MaxFields}}

\* The names of the events the screens report.
EventNames == {"screen_view"}

\* What trackEvent prints: the event, or the note that tracking is disabled.
Disabled(n) ==
    [kind |-> "disabled", name |-> n, analytics_consent |-> FALSE,
     marketing_consent |-> FALSE, data_processing_consent |-> FALSE,
     consent_timestamp |-> 0, is_authenticated |-> FALSE]

\* ------------------------------------------------------------------- state
VARIABLES
    people,          \* the identities that use this installation of the app
    callers,         \* how many operations the screens start before one settles
    accounts,        \* credential service: identifiers that have an account
    currentUser,     \* credential service: auth.currentUser
    pendingRedirect, \* credential service: result of a redirect not yet fetched
    db,              \* profile store: collection "users", keyed by identifier
    subscribed,      \* the onAuthStateChanged listener is registered
    phase,           \* lifecycle of the controller (see Phases)
    notifQ,          \* session-change notifications not yet delivered
    user,            \* AuthProvider state
    userProfile,
    isLoading,
    error,
    ops,             \* operations of the controller in flight
    loads,           \* profile loads of the session-change handler in flight
    done,            \* the operation that completed last (history)
    initialPreferences, \* ConsentManager: the prop, NoPreferences if not given
    preferences,     \* ConsentManager state
    isConsentRequired,
    queued,          \* ConsentManager: setPreferences updaters not yet rendered
    tracked,         \* analytics events emitted by trackEvent
    clock            \* the time new Date() returns

backend == <<people, callers, accounts, currentUser, pendingRedirect, db>>
session == <<user, userProfile, isLoading, error>>
consent == <<initialPreferences, preferences, isConsentRequired, queued, tracked, clock>>
\* What no operation of the controller changes: the listener registration,
\* the lifecycle phase and the state of the consent manager.
frame == <<subscribed, phase, consent>>
vars == <<people, callers, accounts, currentUser, pendingRedirect, db, subscribed, phase,
          notifQ, user, userProfile, isLoading, error, ops, loads, done, consent>>

\* The controller is "initializing" from its construction until a
\* session-change notification has been handled, "ready" from then on, and
\* "disposed" once the cleanup of its effect has run.
Phases == {"initializing", "ready", "disposed"}

OpIds == 1..MaxOps

Idle == [op |-> "idle", pc |-> "idle", uid |-> None, role |-> None, writes |-> 0,
         found |-> FALSE, failed |-> FALSE, solo |-> FALSE, quiet |-> FALSE, after |-> "none",
         mates |-> {}, saw |-> "none",
         preUser |-> None, preProfile |-> NoProfile, preLoading |-> FALSE,
         preError |-> None]

NoEvent == [op |-> "none", outcome |-> "none", stage |-> "none", uid |-> None,
            role |-> None, writes |-> 0, found |-> FALSE, failed |-> FALSE,
            solo |-> FALSE, quiet |-> FALSE, after |-> "none",
            mates |-> {}, saw |-> "none", preUser |-> None,
            preProfile |-> NoProfile, preLoading |-> FALSE, preError |-> None,
            raised |-> None, fresh |-> FALSE]

\* derived values of the context (AuthContext.tsx 70-72, 246-248)
isAuthenticated == user # None
isPatient == userProfile.role = "patient"
isClinician == userProfile.role = "clinician"
hasRole(r) == userProfile.role = r

NoLoads == [u \in Uids |-> 0]
RECURSIVE SumLoads(_, _)
SumLoads(f, S) == IF S = {} THEN 0
                  ELSE LET x == CHOOSE y \in S : TRUE IN f[x] + SumLoads(f, S \ {x})
LoadCount == SumLoads(loads, Uids)
NoOpsInFlight == \A i \in OpIds : ops[i].op = "idle"
Quiescent == NoOpsInFlight /\ LoadCount = 0 /\ notifQ = <<>>

\* ------------------------------------------------------- credential service
\* onAuthStateChanged notifies the listener when the signed-in identifier changes
Notify(newUser) ==
    IF subscribed /\ newUser # currentUser THEN Append(notifQ, newUser) ELSE notifQ
CanNotify == Len(notifQ) < MaxQueue

\* No consent manager is looked at: it stays as constructed without a prop.
ConsentUnused ==
    /\ initialPreferences = NoPreferences
    /\ preferences = NoPreferences
    /\ isConsentRequired = TRUE
    /\ queued = <<>>
    /\ tracked = <<>>
    /\ clock = 0

\* The phase after a session-change handler has finished.
Handled == IF phase = "initializing" THEN "ready" ELSE phase

InitFor(P, n) ==
    /\ people = P
    /\ callers = n
    /\ accounts \in SUBSET P
    /\ currentUser \in accounts \cup {None}
    /\ pendingRedirect = None
    /\ db \in [Uids -> Profiles \cup {NoProfile}]
    /\ \A u \in Uids : db[u] # NoProfile => u \in accounts /\ db[u].uid = u
    /\ subscribed = TRUE
    /\ phase = "initializing"
    /\ notifQ = <<currentUser>>
    /\ user = None
    /\ userProfile = NoProfile
    /\ isLoading = TRUE
    /\ error = None
    /\ ops = [i \in OpIds |-> Idle]
    /\ loads = NoLoads
    /\ done = NoEvent
    /\ ConsentUnused

\* One person uses the app and the screens start one operation at a time
\* (their buttons are disabled while isLoading); two people share it; a
\* careless caller starts operations concurrently.
Init == InitFor({"u1"}, 1)
InitTwo == InitFor(Uids, 1)
InitRace == InitFor({"u1"}, 2)


\* ------------------------------------------------------------ bookkeeping
\* The lowest free slot takes the next operation.
FreeSlot(i) == /\ i <= callers
               /\ ops[i].op = "idle"
               /\ \A j \in OpIds : j < i => ops[j].op # "idle"

NewTask(o, p, u, r) ==
    [op |-> o, pc |-> p, uid |-> u, role |-> r, writes |-> 0, found |-> FALSE,
     failed |-> FALSE,
     solo |-> NoOpsInFlight,
     quiet |-> IF NoOpsInFlight THEN LoadCount = 0 /\ notifQ = <<>>
               ELSE \A j \in OpIds : ops[j].op # "idle" => ops[j].quiet,
     after |-> IF NoOpsInFlight /\ done.solo /\ done.quiet /\ done.outcome = "ok"
               THEN done.op ELSE "none",
     mates |-> {ops[j].op : j \in {k \in OpIds : ops[k].op # "idle"}},
     saw |-> "none",
     preUser |-> user, preProfile |-> userProfile,
     preLoading |-> IF o = "handleRedirect" THEN isLoading ELSE FALSE,
     preError |-> IF o = "handleRedirect" THEN error ELSE None]

\* The operations in flight, overlapped by a call of o.
Overlap(o) ==
    [j \in OpIds |-> IF ops[j].op = "idle" THEN ops[j]
                     ELSE [ops[j] EXCEPT !.solo = FALSE, !.mates = @ \cup {o}]]

\* Starting an operation: it overlaps every operation already in flight.
Begin(i, t) ==
    /\ ops' = [j \in OpIds |-> IF j = i THEN t ELSE Overlap(t.op)[j]]
    /\ done' = NoEvent

\* The completed operations whose later effects are followed: a successful
\* login, a successful logout right after one, and a successful social login
\* that wrote the default profile, each without another operation meanwhile;
\* and a successful logout that overlapped one login and settled after it.
Followed(d) ==
  \/ d.op = "logout" /\ d.outcome = "ok" /\ d.saw \in {"ok", "fail"}
  \/
    /\ d.outcome = "ok" /\ d.solo
    /\ \/ d.op = "login" /\ d.quiet
       \/ d.op = "logout" /\ d.after = "login"
       \/ d.op \in {"google", "handleRedirect"} /\ d.quiet /\ d.writes = 1

\* After the next step only what later properties need is remembered.
Stale(d) == IF Followed(d)
            THEN [NoEvent EXCEPT !.op = d.op, !.outcome = d.outcome, !.uid = d.uid,
                                 !.writes = d.writes, !.failed = d.failed,
                                 !.solo = d.solo,
                                 !.quiet = d.quiet, !.after = d.after,
                                 !.mates = d.mates, !.saw = d.saw]
            ELSE NoEvent

\* An awaited call returned and the operation goes on to its next await.
Continue(i, t) ==
    /\ ops' = [ops EXCEPT ![i] = t]
    /\ done' = Stale(done)

EventOf(t, outcome, stage, raised) ==
    [op |-> t.op, outcome |-> outcome, stage |-> stage, uid |-> t.uid,
     role |-> t.role, writes |-> t.writes, found |-> t.found,
     failed |-> t.failed, solo |-> t.solo,
     quiet |-> t.quiet, after |-> t.after, mates |-> t.mates, saw |-> t.saw,
     preUser |-> t.preUser, preProfile |-> t.preProfile,
     preLoading |-> t.preLoading, preError |-> t.preError,
     raised |-> raised, fresh |-> TRUE]

\* A logout in flight sees a login settle: the outcome of the login, if this
\* is the first and the login overlapped nothing but the logout.
Saw(t, f, outcome) ==
    IF t.op = "logout" /\ f.op = "login"
    THEN [t EXCEPT !.saw = IF @ = "none" /\ f.mates = {"logout"} /\ f.quiet
                           THEN outcome ELSE "dirty"]
    ELSE t

\* The promise of the operation settles: resolved ("ok") or rejected ("fail").
Finish(i, outcome, stage, raised) ==
    /\ ops' = [j \in OpIds |-> IF j = i THEN Idle ELSE Saw(ops[j], ops[i], outcome)]
    /\ done' = EventOf(ops[i], outcome, stage, raised)

At(i, o, p) == ops[i].op = o /\ ops[i].pc = p

\* (variant: the rejecting path skips the finally block)
RejectKeepsLoading(i, err, stage) ==
    /\ error' = HandleAuthError(err)
    /\ Finish(i, "fail", stage, err.message)
    /\ UNCHANGED <<user, userProfile, isLoading>>

\* catch and finally of login .. logout: handleAuthError(error); throw error;
\* setIsLoading(false)
Reject(i, err, stage) ==
    /\ error' = HandleAuthError(err)
    /\ isLoading' = FALSE
    /\ Finish(i, "fail", stage, err.message)
    /\ UNCHANGED <<user, userProfile>>

\* setUser(firebaseUser); setUserProfile(profile); finally setIsLoading(false)
Resolve(i, u, p, stage) ==
    /\ user' = u
    /\ userProfile' = p
    /\ isLoading' = FALSE
    /\ Finish(i, "ok", stage, None)
    /\ UNCHANGED error

\* A sign-in or sign-out of the credential service: auth.currentUser changes
\* and the listener is notified.
SetCurrentUser(u) ==
    /\ (subscribed /\ u # currentUser) => CanNotify
    /\ notifQ' = Notify(u)
    /\ currentUser' = u

\* -------------------------------------------------------------------- login
StartLogin(i, u) ==
    /\ FreeSlot(i)
    /\ error' = None
    /\ isLoading' = TRUE
    /\ Begin(i, NewTask("login", "cred", u, None))
    /\ UNCHANGED <<backend, frame, notifQ, user, userProfile, loads>>

\* LoginScreen.onSubmit with the validated form (email and password of u,
\* selected role r): login(data.email, data.password). The task remembers r
\* as what the form showed; login does not receive it.
OnSubmit(i, u, r) ==
    /\ FreeSlot(i)
    /\ error' = None
    /\ isLoading' = TRUE
    /\ Begin(i, [NewTask("login", "cred", u, None) EXCEPT !.role = r])
    /\ UNCHANGED <<backend, frame, notifQ, user, userProfile, loads>>

\* signInWithEmailAndPassword resolves; signIn goes on to getDoc
LoginCredOk(i) ==
    /\ At(i, "login", "cred")
    /\ ops[i].uid \in accounts
    /\ SetCurrentUser(ops[i].uid)
    /\ Continue(i, [ops[i] EXCEPT !.pc = "read"])
    /\ UNCHANGED <<people, callers, accounts, pendingRedirect, db, frame, session, loads>>

\* signInWithEmailAndPassword rejects with code c
LoginCredFail(i, c) ==
    /\ At(i, "login", "cred")
    /\ c = "auth/user-not-found" => ops[i].uid \notin accounts
    /\ c \in {"auth/wrong-password", "auth/user-disabled"} => ops[i].uid \in accounts
    /\ Reject(i, SignInCatch(FirebaseError(c)), "credfail")
    /\ UNCHANGED <<backend, frame, notifQ, loads>>

\* (variant: the role selected in the form becomes the role of the session)
LoginReadFoundFormRole(i) ==
    /\ At(i, "login", "read")
    /\ db[ops[i].uid] # NoProfile
    /\ Resolve(i, ops[i].uid,
               IF ops[i].role = None THEN db[ops[i].uid]
               ELSE MkProfile(ops[i].uid, ops[i].role), "read")
    /\ UNCHANGED <<backend, frame, notifQ, loads>>

\* getDoc resolves: the document exists
LoginReadFound(i) ==
    /\ At(i, "login", "read")
    /\ db[ops[i].uid] # NoProfile
    /\ Resolve(i, ops[i].uid, db[ops[i].uid], "read")
    /\ UNCHANGED <<backend, frame, notifQ, loads>>

\* (variant: the service creates the missing profile, as the social login does)
LoginReadMissingCreates(i) ==
    /\ At(i, "login", "read")
    /\ db[ops[i].uid] = NoProfile
    /\ db' = [db EXCEPT ![ops[i].uid] = MkProfile(ops[i].uid, "patient")]
    /\ Resolve(i, ops[i].uid, MkProfile(ops[i].uid, "patient"), "profile")
    /\ UNCHANGED <<people, callers, accounts, currentUser, pendingRedirect, frame,
                   notifQ, loads>>

\* getDoc resolves: no document; the Error thrown inside the try block of
\* signIn is caught by the catch block of signIn
LoginReadMissing(i) ==
    /\ At(i, "login", "read")
    /\ db[ops[i].uid] = NoProfile
    /\ Reject(i, SignInCatch(NewError(MsgProfileNotFound)), "profile")
    /\ UNCHANGED <<backend, frame, notifQ, loads>>

\* getDoc rejects
LoginReadFail(i) ==
    /\ At(i, "login", "read")
    /\ Reject(i, SignInCatch(FirebaseError(StoreCode)), "readfail")
    /\ UNCHANGED <<backend, frame, notifQ, loads>>

\* ------------------------------------------------------------------- signup
StartSignup(i, u, r) ==
    /\ FreeSlot(i)
    /\ error' = None
    /\ isLoading' = TRUE
    /\ Begin(i, NewTask("signup", "cred", u, r))
    /\ UNCHANGED <<backend, frame, notifQ, user, userProfile, loads>>

\* createUserWithEmailAndPassword resolves (the new account is signed in);
\* signUp builds the profile and calls setDoc
SignupCredOk(i) ==
    /\ At(i, "signup", "cred")
    /\ ops[i].uid \notin accounts
    /\ accounts' = accounts \cup {ops[i].uid}
    /\ SetCurrentUser(ops[i].uid)
    /\ Continue(i, [ops[i] EXCEPT !.pc = "write", !.writes = @ + 1])
    /\ UNCHANGED <<people, callers, pendingRedirect, db, frame, session, loads>>

SignupCredFail(i, c) ==
    /\ At(i, "signup", "cred")
    /\ c = "auth/email-already-in-use" => ops[i].uid \in accounts
    /\ Reject(i, SignUpCatch(FirebaseError(c)), "credfail")
    /\ UNCHANGED <<backend, frame, notifQ, loads>>

\* (variant: the role argument is dropped and the default role is stored)
SignupWriteOkDefaultRole(i) ==
    /\ At(i, "signup", "write")
    /\ db' = [db EXCEPT ![ops[i].uid] = MkProfile(ops[i].uid, "patient")]
    /\ Resolve(i, ops[i].uid, MkProfile(ops[i].uid, "patient"), "write")
    /\ UNCHANGED <<people, callers, accounts, currentUser, pendingRedirect, frame,
                   notifQ, loads>>

\* setDoc resolves
SignupWriteOk(i) ==
    /\ At(i, "signup", "write")
    /\ db' = [db EXCEPT ![ops[i].uid] = MkProfile(ops[i].uid, ops[i].role)]
    /\ Resolve(i, ops[i].uid, MkProfile(ops[i].uid, ops[i].role), "write")
    /\ UNCHANGED <<people, callers, accounts, currentUser, pendingRedirect, frame, notifQ, loads>>

\* (variant: the failed write is swallowed and the profile is returned)
SignupWriteFailSwallowed(i) ==
    /\ At(i, "signup", "write")
    /\ Resolve(i, ops[i].uid, MkProfile(ops[i].uid, ops[i].role), "writefail")
    /\ UNCHANGED <<backend, frame, notifQ, loads>>

\* setDoc rejects
SignupWriteFail(i) ==
    /\ At(i, "signup", "write")
    /\ Reject(i, SignUpCatch(FirebaseError(StoreCode)), "writefail")
    /\ UNCHANGED <<backend, frame, notifQ, loads>>

\* ------------------------------------------------------------------- logout
\* (variant: logout keeps the error message of an earlier failure)
StartLogoutKeepsError(i) ==
    /\ FreeSlot(i)
    /\ isLoading' = TRUE
    /\ Begin(i, NewTask("logout", "cred", None, None))
    /\ UNCHANGED <<backend, frame, notifQ, user, userProfile, error, loads>>

StartLogout(i) ==
    /\ FreeSlot(i)
    /\ error' = None
    /\ isLoading' = TRUE
    /\ Begin(i, NewTask("logout", "cred", None, None))
    /\ UNCHANGED <<backend, frame, notifQ, user, userProfile, loads>>

\* signOut resolves
LogoutOk(i) ==
    /\ At(i, "logout", "cred")
    /\ SetCurrentUser(None)
    /\ Resolve(i, None, NoProfile, "cred")
    /\ UNCHANGED <<people, callers, accounts, pendingRedirect, db, frame, loads>>

\* signOut rejects
LogoutFail(i) ==
    /\ At(i, "logout", "cred")
    /\ Reject(i, SignOutCatch(FirebaseError("auth/network-request-failed")), "credfail")
    /\ UNCHANGED <<backend, frame, notifQ, loads>>

\* ------------------------------------- loginWithGoogle, handleGoogleRedirect
Social == {"google", "handleRedirect"}

\* catch block of signInWithGoogle or of handleGoogleRedirectResult
SocialCatch(o, err) == IF o = "google" THEN GoogleCatch(err) ELSE RedirectResultCatch(err)

StartGoogle(i) ==
    /\ FreeSlot(i)
    /\ error' = None
    /\ isLoading' = TRUE
    /\ Begin(i, NewTask("google", "cred", None, None))
    /\ UNCHANGED <<backend, frame, notifQ, user, userProfile, loads>>

\* signInWithPopup resolves with the account the person chose; the service
\* calls getCurrentUserProfile, which reads auth.currentUser and calls getDoc
GoogleCredOk(i, u) ==
    /\ At(i, "google", "cred")
    /\ accounts' = accounts \cup {u}
    /\ SetCurrentUser(u)
    /\ Continue(i, [ops[i] EXCEPT !.pc = "read", !.uid = u])
    /\ UNCHANGED <<people, callers, pendingRedirect, db, frame, session, loads>>

GoogleCredFail(i, c) ==
    /\ At(i, "google", "cred")
    /\ Reject(i, GoogleCatch(FirebaseError(c)), "credfail")
    /\ UNCHANGED <<backend, frame, notifQ, loads>>

StartHandleRedirect(i) ==
    /\ FreeSlot(i)
    /\ error' = None
    /\ isLoading' = TRUE
    /\ Begin(i, NewTask("handleRedirect", "cred", None, None))
    /\ UNCHANGED <<backend, frame, notifQ, user, userProfile, loads>>

\* getRedirectResult resolves with null: handleGoogleRedirectResult returns
\* null and handleGoogleRedirect only runs its finally block
RedirectResultNone(i) ==
    /\ At(i, "handleRedirect", "cred")
    /\ pendingRedirect = None
    /\ isLoading' = FALSE
    /\ Finish(i, "ok", "noresult", None)
    /\ UNCHANGED <<backend, frame, notifQ, user, userProfile, error, loads>>

\* getRedirectResult resolves with the result of the pending redirect
RedirectResultOk(i) ==
    /\ At(i, "handleRedirect", "cred")
    /\ pendingRedirect # None
    /\ accounts' = accounts \cup {pendingRedirect}
    /\ SetCurrentUser(pendingRedirect)
    /\ pendingRedirect' = None
    /\ Continue(i, [ops[i] EXCEPT !.pc = "read", !.uid = pendingRedirect])
    /\ UNCHANGED <<people, callers, db, frame, session, loads>>

RedirectResultFail(i) ==
    /\ At(i, "handleRedirect", "cred")
    /\ Reject(i, RedirectResultCatch(FirebaseError("auth/network-request-failed")), "credfail")
    /\ UNCHANGED <<backend, frame, notifQ, loads>>

\* getCurrentUserProfile resolves with the stored profile
SocialReadFound(i) ==
    /\ ops[i].op \in Social /\ ops[i].pc = "read"
    /\ db[ops[i].uid] # NoProfile
    /\ user' = ops[i].uid
    /\ userProfile' = db[ops[i].uid]
    /\ isLoading' = FALSE
    /\ ops' = [ops EXCEPT ![i] = Idle]
    /\ done' = EventOf([ops[i] EXCEPT !.found = TRUE], "ok", "read", None)
    /\ UNCHANGED <<backend, frame, notifQ, error, loads>>

\* getCurrentUserProfile resolves with null (no document); the service calls
\* setDoc with the default profile
SocialReadMissing(i) ==
    /\ ops[i].op \in Social /\ ops[i].pc = "read"
    /\ db[ops[i].uid] = NoProfile
    /\ Continue(i, [ops[i] EXCEPT !.pc = "write", !.writes = @ + 1])
    /\ UNCHANGED <<backend, frame, notifQ, session, loads>>

\* getDoc rejects inside getCurrentUserProfile, whose catch block returns
\* null; the service calls setDoc with the default profile
SocialReadFail(i) ==
    /\ ops[i].op \in Social /\ ops[i].pc = "read"
    /\ Continue(i, [ops[i] EXCEPT !.pc = "write", !.writes = @ + 1, !.failed = TRUE])
    /\ UNCHANGED <<backend, frame, notifQ, session, loads>>

\* setDoc resolves
SocialWriteOk(i) ==
    /\ ops[i].op \in Social /\ ops[i].pc = "write"
    /\ db' = [db EXCEPT ![ops[i].uid] = MkProfile(ops[i].uid, "patient")]
    /\ Resolve(i, ops[i].uid, MkProfile(ops[i].uid, "patient"), "write")
    /\ UNCHANGED <<people, callers, accounts, currentUser, pendingRedirect, frame, notifQ, loads>>

\* setDoc rejects
SocialWriteFail(i) ==
    /\ ops[i].op \in Social /\ ops[i].pc = "write"
    /\ Reject(i, SocialCatch(ops[i].op, FirebaseError(StoreCode)), "writefail")
    /\ UNCHANGED <<backend, frame, notifQ, loads>>

\* -------------------------------------------------- loginWithGoogleRedirect
StartRedirect(i) ==
    /\ FreeSlot(i)
    /\ error' = None
    /\ isLoading' = TRUE
    /\ Begin(i, NewTask("redirect", "cred", None, None))
    /\ UNCHANGED <<backend, frame, notifQ, user, userProfile, loads>>

\* (variant: beginning a redirect drops the current session)
RedirectInitOkSignsOut(i, u) ==
    /\ At(i, "redirect", "cred")
    /\ pendingRedirect' = u
    /\ Resolve(i, None, NoProfile, "cred")
    /\ UNCHANGED <<people, callers, accounts, currentUser, db, frame, notifQ, loads>>

\* signInWithRedirect resolves; the person signs in as u at the provider and
\* the result waits for getRedirectResult
RedirectInitOk(i, u) ==
    /\ At(i, "redirect", "cred")
    /\ pendingRedirect' = u
    /\ isLoading' = FALSE
    /\ Finish(i, "ok", "cred", None)
    /\ UNCHANGED <<people, callers, accounts, currentUser, db, frame, notifQ, user, userProfile,
                   error, loads>>

RedirectInitFail(i) ==
    /\ At(i, "redirect", "cred")
    /\ Reject(i, RedirectInitCatch(FirebaseError("auth/network-request-failed")), "credfail")
    /\ UNCHANGED <<backend, frame, notifQ, loads>>

\* ------------------------------------------------------- refreshUserProfile
\* a variant that clears error first, as the other operations do
RefreshNoUserClearsError ==
    /\ user = None
    /\ error' = None
    /\ ops' = Overlap("refresh")
    /\ done' = EventOf(NewTask("refresh", "idle", None, None), "ok", "nouser", None)
    /\ UNCHANGED <<backend, frame, notifQ, user, userProfile, isLoading, loads>>

\* if (user) is false: the function returns
RefreshNoUser ==
    /\ user = None
    /\ ops' = Overlap("refresh")
    /\ done' = EventOf(NewTask("refresh", "idle", None, None), "ok", "nouser", None)
    /\ UNCHANGED <<backend, frame, notifQ, session, loads>>

\* getCurrentUserProfile finds auth.currentUser null and returns null
RefreshNoCurrentUser ==
    /\ user # None
    /\ currentUser = None
    /\ userProfile' = NoProfile
    /\ ops' = Overlap("refresh")
    /\ done' = EventOf(NewTask("refresh", "idle", None, None), "ok", "nocurrent", None)
    /\ UNCHANGED <<backend, frame, notifQ, user, isLoading, error, loads>>

\* getCurrentUserProfile calls getDoc for auth.currentUser
StartRefresh(i) ==
    /\ FreeSlot(i)
    /\ user # None
    /\ currentUser # None
    /\ Begin(i, NewTask("refresh", "read", currentUser, None))
    /\ UNCHANGED <<backend, frame, notifQ, session, loads>>

\* getDoc resolves: loadUserProfile stores the profile, or null if there is
\* no document
RefreshDone(i) ==
    /\ At(i, "refresh", "read")
    /\ userProfile' = db[ops[i].uid]
    /\ ops' = [ops EXCEPT ![i] = Idle]
    /\ done' = EventOf([ops[i] EXCEPT !.found = (db[ops[i].uid] # NoProfile)],
                       "ok", "read", None)
    /\ UNCHANGED <<backend, frame, notifQ, user, isLoading, error, loads>>

\* (variant: a failed refresh keeps the profile loaded before)
RefreshFailKeepsProfile(i) ==
    /\ At(i, "refresh", "read")
    /\ ops' = [ops EXCEPT ![i] = Idle]
    /\ done' = EventOf([ops[i] EXCEPT !.failed = TRUE], "ok", "readfail", None)
    /\ UNCHANGED <<backend, frame, notifQ, user, userProfile, isLoading, error, loads>>

\* getDoc rejects: getCurrentUserProfile returns null
RefreshFail(i) ==
    /\ At(i, "refresh", "read")
    /\ userProfile' = NoProfile
    /\ ops' = [ops EXCEPT ![i] = Idle]
    /\ done' = EventOf([ops[i] EXCEPT !.failed = TRUE], "ok", "readfail", None)
    /\ UNCHANGED <<backend, frame, notifQ, user, isLoading, error, loads>>

\* --------------------------------------------------------------- clearError
ClearError ==
    /\ error # None
    /\ error' = None
    /\ done' = Stale(done)
    /\ UNCHANGED <<backend, frame, notifQ, user, userProfile, isLoading, ops, loads>>

\* ------------------------------------- callback passed to onAuthStateChange
\* (variant: the callback forgets the profile of the user who has gone)
NotifyAbsentKeepsProfile ==
    /\ subscribed
    /\ notifQ # <<>>
    /\ Head(notifQ) = None
    /\ notifQ' = Tail(notifQ)
    /\ user' = None
    /\ isLoading' = FALSE
    /\ phase' = Handled
    /\ done' = Stale(done)
    /\ UNCHANGED <<backend, subscribed, consent, userProfile, error, ops, loads>>

\* firebaseUser is null
NotifyAbsent ==
    /\ subscribed
    /\ notifQ # <<>>
    /\ Head(notifQ) = None
    /\ notifQ' = Tail(notifQ)
    /\ user' = None
    /\ userProfile' = NoProfile
    /\ isLoading' = FALSE
    /\ phase' = Handled
    /\ done' = Stale(done)
    /\ UNCHANGED <<backend, subscribed, consent, error, ops, loads>>

\* (variant: the callback does not await loadUserProfile)
NotifyPresentNoAwait ==
    /\ subscribed
    /\ notifQ # <<>>
    /\ Head(notifQ) # None
    /\ notifQ' = Tail(notifQ)
    /\ user' = Head(notifQ)
    /\ isLoading' = FALSE
    /\ phase' = Handled
    /\ IF currentUser = None
       THEN /\ userProfile' = NoProfile
            /\ loads' = loads
       ELSE /\ LoadCount < MaxLoads
            /\ loads' = [loads EXCEPT ![currentUser] = @ + 1]
            /\ UNCHANGED userProfile
    /\ done' = Stale(done)
    /\ UNCHANGED <<backend, subscribed, consent, error, ops>>

\* firebaseUser is present: setUser, then loadUserProfile; getCurrentUserProfile
\* reads auth.currentUser and, if it is present, calls getDoc
NotifyPresent ==
    /\ subscribed
    /\ notifQ # <<>>
    /\ Head(notifQ) # None
    /\ notifQ' = Tail(notifQ)
    /\ user' = Head(notifQ)
    /\ IF currentUser = None
       THEN /\ userProfile' = NoProfile
            /\ isLoading' = FALSE
            /\ phase' = Handled
            /\ loads' = loads
       ELSE /\ LoadCount < MaxLoads
            /\ loads' = [loads EXCEPT ![currentUser] = @ + 1]
            /\ UNCHANGED <<userProfile, isLoading, phase>>
    /\ done' = Stale(done)
    /\ UNCHANGED <<backend, subscribed, consent, error, ops>>

\* getDoc of the handler resolves: the profile, or null if there is no document
LoadDone(u) ==
    /\ loads[u] > 0
    /\ loads' = [loads EXCEPT ![u] = @ - 1]
    /\ userProfile' = db[u]
    /\ isLoading' = FALSE
    /\ phase' = Handled
    /\ done' = Stale(done)
    /\ UNCHANGED <<backend, subscribed, consent, notifQ, user, error, ops>>

\* getDoc of the handler rejects
LoadFail(u) ==
    /\ loads[u] > 0
    /\ loads' = [loads EXCEPT ![u] = @ - 1]
    /\ userProfile' = NoProfile
    /\ isLoading' = FALSE
    /\ phase' = Handled
    /\ done' = Stale(done)
    /\ UNCHANGED <<backend, subscribed, consent, notifQ, user, error, ops>>

\* ------------------------------------------------------------- environment
\* The credential service ends the session by itself (forced sign-out).
ExternalSignOut ==
    /\ currentUser # None
    /\ SetCurrentUser(None)
    /\ ops' = Overlap("external")
    /\ done' = NoEvent
    /\ UNCHANGED <<people, callers, accounts, pendingRedirect, db, frame, session, loads>>

\* (variant: the effect returns no cleanup, the listener stays registered)
UnmountKeepsListener ==
    /\ phase # "disposed"
    /\ phase' = "disposed"
    /\ done' = Stale(done)
    /\ UNCHANGED <<backend, subscribed, notifQ, consent, session, ops, loads>>

\* cleanup of the effect: unsubscribe()
Unmount ==
    /\ subscribed
    /\ subscribed' = FALSE
    /\ phase' = "disposed"
    /\ notifQ' = <<>>
    /\ done' = Stale(done)
    /\ UNCHANGED <<backend, consent, session, ops, loads>>

\* The provider is mounted again (the app is reopened) once the work of the
\* disposed one has drained: fresh state, and the effect subscribes; the
\* credential service reports its current user to the new listener.
Mount ==
    /\ phase = "disposed"
    /\ NoOpsInFlight /\ LoadCount = 0
    /\ user' = None
    /\ userProfile' = NoProfile
    /\ isLoading' = TRUE
    /\ error' = None
    /\ subscribed' = TRUE
    /\ phase' = "initializing"
    /\ notifQ' = <<currentUser>>
    /\ done' = NoEvent
    /\ UNCHANGED <<backend, consent, ops, loads>>

Next ==
    \/ \E i \in OpIds, u \in people : StartLogin(i, u)
    \/ \E i \in OpIds : LoginCredOk(i)
    \/ \E i \in OpIds, c \in SignInCodes : LoginCredFail(i, c)
    \/ \E i \in OpIds : LoginReadFound(i)
    \/ \E i \in OpIds : LoginReadMissing(i)
    \/ \E i \in OpIds : LoginReadFail(i)
    \/ \E i \in OpIds, u \in people, r \in Roles : StartSignup(i, u, r)
    \/ \E i \in OpIds : SignupCredOk(i)
    \/ \E i \in OpIds, c \in SignUpCodes : SignupCredFail(i, c)
    \/ \E i \in OpIds : SignupWriteOk(i)
    \/ \E i \in OpIds : SignupWriteFail(i)
    \/ \E i \in OpIds : StartLogout(i)
    \/ \E i \in OpIds : LogoutOk(i)
    \/ \E i \in OpIds : LogoutFail(i)
    \/ \E i \in OpIds : StartGoogle(i)
    \/ \E i \in OpIds, u \in people : GoogleCredOk(i, u)
    \/ \E i \in OpIds, c \in PopupCodes : GoogleCredFail(i, c)
    \/ \E i \in OpIds : StartHandleRedirect(i)
    \/ \E i \in OpIds : RedirectResultNone(i)
    \/ \E i \in OpIds : RedirectResultOk(i)
    \/ \E i \in OpIds : RedirectResultFail(i)
    \/ \E i \in OpIds : SocialReadFound(i)
    \/ \E i \in OpIds : SocialReadMissing(i)
    \/ \E i \in OpIds : SocialReadFail(i)
    \/ \E i \in OpIds : SocialWriteOk(i)
    \/ \E i \in OpIds : SocialWriteFail(i)
    \/ \E i \in OpIds : StartRedirect(i)
    \/ \E i \in OpIds, u \in people : RedirectInitOk(i, u)
    \/ \E i \in OpIds : RedirectInitFail(i)
    \/ RefreshNoUser
    \/ RefreshNoCurrentUser
    \/ \E i \in OpIds : StartRefresh(i)
    \/ \E i \in OpIds : RefreshDone(i)
    \/ \E i \in OpIds : RefreshFail(i)
    \/ ClearError
    \/ NotifyAbsent
    \/ NotifyPresent
    \/ \E u \in people : LoadDone(u)
    \/ \E u \in people : LoadFail(u)
    \/ ExternalSignOut

\* ---------------------------------------------------------- ConsentManager
\* The controller and the services, which the consent manager never touches.
authVars == <<backend, subscribed, phase, notifQ, session, ops, loads, done>>

hasConsent(type) ==
    IF preferences = NoPreferences THEN FALSE ELSE preferences[type]

\* (variant: the updater replaces the preferences by the given fields)
MergeReplaces(prev, new, t) ==
    IF prev = NoPreferences THEN NoPreferences
    ELSE [f \in DOMAIN prev |->
             IF f = "lastUpdated" THEN t
             ELSE IF f \in DOMAIN new THEN new[f] ELSE FALSE]

\* The updater passed to setPreferences, applied to prev at time t.
Merge(prev, new, t) ==
    IF prev = NoPreferences THEN NoPreferences
    ELSE [f \in DOMAIN prev |->
             IF f = "lastUpdated" THEN t
             ELSE IF f \in DOMAIN new THEN new[f] ELSE prev[f]]

\* updatePreferences(newPreferences): the updater is queued for the next render
UpdatePreferences(new) ==
    /\ Len(queued) < MaxQueued
    /\ queued' = Append(queued, new)
    /\ UNCHANGED <<authVars, initialPreferences, preferences, isConsentRequired,
                   tracked, clock>>

\* React renders: the oldest queued updater runs on the current preferences
Render ==
    /\ queued # <<>>
    /\ preferences' = Merge(preferences, Head(queued), clock)
    /\ queued' = Tail(queued)
    /\ UNCHANGED <<authVars, initialPreferences, isConsentRequired, tracked, clock>>

\* (variant: trackEvent does not look at the consent)
TrackEventUnchecked(n) ==
    /\ Len(tracked) < MaxTracked
    /\ tracked' = Append(tracked,
           [kind |-> "event", name |-> n,
            analytics_consent |-> hasConsent("analytics"),
            marketing_consent |-> hasConsent("marketing"),
            data_processing_consent |-> hasConsent("dataProcessing"),
            consent_timestamp |->
                IF preferences = NoPreferences THEN clock ELSE preferences.lastUpdated,
            is_authenticated |-> preferences # NoPreferences])
    /\ UNCHANGED <<authVars, initialPreferences, preferences, isConsentRequired,
                   queued, clock>>

\* trackEvent(event), with the preferences of the last render
TrackEvent(n) ==
    /\ Len(tracked) < MaxTracked
    /\ tracked' = Append(tracked,
           IF ~hasConsent("analytics") THEN Disabled(n)
           ELSE [kind |-> "event", name |-> n,
                 analytics_consent |-> hasConsent("analytics"),
                 marketing_consent |-> hasConsent("marketing"),
                 data_processing_consent |-> hasConsent("dataProcessing"),
                 consent_timestamp |->
                     IF preferences = NoPreferences THEN clock
                     ELSE preferences.lastUpdated,
                 is_authenticated |-> preferences # NoPreferences])
    /\ UNCHANGED <<authVars, initialPreferences, preferences, isConsentRequired,
                   queued, clock>>

SetConsentRequired(required) ==
    /\ isConsentRequired # required
    /\ isConsentRequired' = required
    /\ UNCHANGED <<authVars, initialPreferences, preferences, queued, tracked, clock>>

\* Time passes.
Tick ==
    /\ clock < MaxClock
    /\ clock' = clock + 1
    /\ UNCHANGED <<authVars, initialPreferences, preferences, isConsentRequired,
                   queued, tracked>>

\* The consent manager as constructed, with or without initialPreferences;
\* the controller is as constructed and stays so.
InitConsent ==
    /\ people = {"u1"} /\ callers = 1
    /\ accounts = {} /\ currentUser = None /\ pendingRedirect = None
    /\ db = [u \in Uids |-> NoProfile]
    /\ subscribed = TRUE /\ phase = "initializing" /\ notifQ = <<None>>
    /\ user = None /\ userProfile = NoProfile /\ isLoading = TRUE /\ error = None
    /\ ops = [i \in OpIds |-> Idle] /\ loads = NoLoads /\ done = NoEvent
    /\ initialPreferences \in {q \in Preferences : q.lastUpdated = 0} \cup {NoPreferences}
    /\ preferences = initialPreferences
    /\ isConsentRequired = (initialPreferences = NoPreferences)
    /\ queued = <<>>
    /\ tracked = <<>>
    /\ clock = 0

NextConsent ==
    \/ \E new \in Updates : UpdatePreferences(new)
    \/ Render
    \/ \E n \in EventNames : TrackEvent(n)
    \/ \E required \in BOOLEAN : SetConsentRequired(required)
    \/ Tick

SpecConsent == InitConsent /\ [][NextConsent]_vars

\* ------------------------------------------------------------ AppNavigator
\* (variant: the role is tested before isAuthenticated)
AppNavigatorRoleFirst(loading, authenticated, patient, clinician) ==
    IF loading THEN "LoadingScreen"
    ELSE IF patient THEN "PatientTabNavigator"
    ELSE IF clinician THEN "ClinicianTabNavigator"
    ELSE "AuthNavigator"

\* The component AppNavigator renders for the values read from useAuth().
AppNavigator(loading, authenticated, patient, clinician) ==
    IF loading THEN "LoadingScreen"
    ELSE IF ~authenticated THEN "AuthNavigator"
    ELSE IF patient THEN "PatientTabNavigator"
    ELSE IF clinician THEN "ClinicianTabNavigator"
    ELSE "AuthNavigator"

\* What the router shows in the current state.
Screen == AppNavigator(isLoading, isAuthenticated, isPatient, isClinician)

Spec == Init /\ [][Next]_vars
SpecTwo == InitTwo /\ [][Next]_vars

\* The operations a careless caller overlaps: login, logout and
\* refreshUserProfile, with the session-change handler.
NextRace ==
    \/ \E i \in OpIds, u \in people : StartLogin(i, u)
    \/ \E i \in OpIds : LoginCredOk(i)
    \/ \E i \in OpIds, c \in SignInCodes : LoginCredFail(i, c)
    \/ \E i \in OpIds : LoginReadFound(i)
    \/ \E i \in OpIds : LoginReadMissing(i)
    \/ \E i \in OpIds : LoginReadFail(i)
    \/ \E i \in OpIds : StartLogout(i)
    \/ \E i \in OpIds : LogoutOk(i)
    \/ \E i \in OpIds : LogoutFail(i)
    \/ RefreshNoUser
    \/ RefreshNoCurrentUser
    \/ \E i \in OpIds : StartRefresh(i)
    \/ \E i \in OpIds : RefreshDone(i)
    \/ \E i \in OpIds : RefreshFail(i)
    \/ NotifyAbsent
    \/ NotifyPresent
    \/ \E u \in people : LoadDone(u)
    \/ \E u \in people : LoadFail(u)

SpecRace == InitRace /\ [][NextRace]_vars

\* Two people share the installation and sign in and out in turn; a session
\* may also be ended from outside the controller.
NextShared ==
    \/ NextRace
    \/ ExternalSignOut

SpecShared == InitTwo /\ [][NextShared]_vars

\* The provider over its whole life: login, logout, the redirect flow and
\* the session-change handler, with the cleanup of the effect and a new mount.
NextMount ==
    \/ \E i \in OpIds, u \in people : StartLogin(i, u)
    \/ \E i \in OpIds : LoginCredOk(i)
    \/ \E i \in OpIds, c \in SignInCodes : LoginCredFail(i, c)
    \/ \E i \in OpIds : LoginReadFound(i)
    \/ \E i \in OpIds : LoginReadMissing(i)
    \/ \E i \in OpIds : LoginReadFail(i)
    \/ \E i \in OpIds : StartLogout(i)
    \/ \E i \in OpIds : LogoutOk(i)
    \/ \E i \in OpIds : LogoutFail(i)
    \/ \E i \in OpIds : StartRedirect(i)
    \/ \E i \in OpIds, u \in people : RedirectInitOk(i, u)
    \/ \E i \in OpIds : RedirectInitFail(i)
    \/ \E i \in OpIds : StartHandleRedirect(i)
    \/ \E i \in OpIds : RedirectResultNone(i)
    \/ \E i \in OpIds : RedirectResultOk(i)
    \/ \E i \in OpIds : RedirectResultFail(i)
    \/ \E i \in OpIds : SocialReadFound(i)
    \/ \E i \in OpIds : SocialReadMissing(i)
    \/ \E i \in OpIds : SocialReadFail(i)
    \/ \E i \in OpIds : SocialWriteOk(i)
    \/ \E i \in OpIds : SocialWriteFail(i)
    \/ NotifyAbsent
    \/ NotifyPresent
    \/ \E u \in people : LoadDone(u)
    \/ \E u \in people : LoadFail(u)
    \/ ExternalSignOut
    \/ Unmount
    \/ Mount

SpecMount == Init /\ [][NextMount]_vars

\* The login screen: the form is submitted with a selected role; logout and
\* the session-change handler complete the picture.
NextForm ==
    \/ \E i \in OpIds, u \in people, r \in Roles : OnSubmit(i, u, r)
    \/ \E i \in OpIds : LoginCredOk(i)
    \/ \E i \in OpIds, c \in SignInCodes : LoginCredFail(i, c)
    \/ \E i \in OpIds : LoginReadFound(i)
    \/ \E i \in OpIds : LoginReadMissing(i)
    \/ \E i \in OpIds : LoginReadFail(i)
    \/ \E i \in OpIds : StartLogout(i)
    \/ \E i \in OpIds : LogoutOk(i)
    \/ \E i \in OpIds : LogoutFail(i)
    \/ NotifyAbsent
    \/ NotifyPresent
    \/ \E u \in people : LoadDone(u)
    \/ \E u \in people : LoadFail(u)

SpecForm == Init /\ [][NextForm]_vars

\* The awaited call of the operation in slot i returns or fails.
Respond(i) ==
    \/ LoginCredOk(i) \/ (\E c \in SignInCodes : LoginCredFail(i, c))
    \/ LoginReadFound(i) \/ LoginReadMissing(i) \/ LoginReadFail(i)
    \/ SignupCredOk(i) \/ (\E c \in SignUpCodes : SignupCredFail(i, c))
    \/ SignupWriteOk(i) \/ SignupWriteFail(i)
    \/ LogoutOk(i) \/ LogoutFail(i)
    \/ (\E u \in people : GoogleCredOk(i, u))
    \/ (\E c \in PopupCodes : GoogleCredFail(i, c))
    \/ RedirectResultNone(i) \/ RedirectResultOk(i) \/ RedirectResultFail(i)
    \/ SocialReadFound(i) \/ SocialReadMissing(i) \/ SocialReadFail(i)
    \/ SocialWriteOk(i) \/ SocialWriteFail(i)
    \/ (\E u \in people : RedirectInitOk(i, u)) \/ RedirectInitFail(i)
    \/ RefreshDone(i) \/ RefreshFail(i)

\* Every call to the Credential Service or the Profile Store eventually
\* returns or fails.
SpecLive == Init /\ [][Next]_vars /\ \A i \in OpIds : WF_vars(Respond(i))

TypeOK ==
    /\ phase \in Phases
    /\ preferences \in Preferences \cup {NoPreferences}
    /\ accounts \subseteq Uids
    /\ currentUser \in Uids \cup {None}
    /\ user \in Uids \cup {None}
    /\ userProfile \in Profiles \cup {NoProfile}
    /\ isLoading \in BOOLEAN
    /\ Len(notifQ) <= MaxQueue
    /\ LoadCount <= MaxLoads

\* ===================================================================== C1
\* C1: in every reachable state, if the Session User is absent (user = null)
\* then the User Profile is absent (userProfile = null).
C1_AbsentUserAbsentProfile == user = None => userProfile = NoProfile

\* ===================================================================== C2
\* An operation that was rejected in the state it left behind, having started
\* with no notification and no profile load pending and with no other
\* operation or forced sign-out meanwhile.
FailedAlone(o) ==
    /\ done.fresh /\ done.op = o /\ done.outcome = "fail"
    /\ done.solo /\ done.quiet

\* C2: when login, signup, loginWithGoogle, handleGoogleRedirect or logout
\* fails, Session User and User Profile are the same after the failure as
\* before the call (a failed login started in SignedOut ends in SignedOut).
C2_FailureLeavesSession ==
    \A o \in {"login", "signup", "google", "handleRedirect", "logout"} :
        FailedAlone(o) => user = done.preUser /\ userProfile = done.preProfile

\* ===================================================================== C3
PublicOps == {"login", "signup", "google", "redirect", "handleRedirect", "logout",
              "refresh"}

\* The operation that just settled met a failure of the credential service
\* or of the profile store.
MetFailure == done.fresh /\ done.op \in PublicOps
              /\ (done.outcome = "fail" \/ done.failed)

\* C3: every public operation that meets a failure of the Credential Service
\* or the Profile Store stores a non-empty message in error and re-raises an
\* error to its caller.
C3_FailureStoredAndRaised ==
    MetFailure => error # None /\ error # "" /\ done.raised # None

\* ===================================================================== C4
\* C4: a login whose credentials are verified but that finds no profile
\* document fails with the 'contact support' profile-not-found message, in
\* error and in the re-raised error, not with the message of an unmapped
\* sign-in failure.
C4_ProfileMissingMessage ==
    (done.fresh /\ done.op = "login" /\ done.stage = "profile")
        => /\ done.outcome = "fail"
           /\ error = MsgProfileNotFound
           /\ done.raised = MsgProfileNotFound
           /\ error # MsgSignInDefault

\* ===================================================================== C5
\* A step of a login: its start, or the response to one of its awaits.
LoginStep == \E i \in OpIds : /\ ops[i].op = "login" \/ ops'[i].op = "login"
                              /\ ops'[i] # ops[i]

\* C5: login never writes to the Profile Store: every step of a login, for
\* every outcome, leaves the profile documents as they were, and a login
\* issues no setDoc.
C5_LoginNeverWrites ==
    [][LoginStep => /\ db' = db
                    /\ \A i \in OpIds : ops'[i].op = "login" => ops'[i].writes = 0
                    /\ done'.op = "login" => done'.writes = 0]_vars

\* a login with verified credentials and no profile document has failed, and
\* there is still no document
C5_Witness ==
    /\ done.fresh /\ done.op = "login" /\ done.stage = "profile"
    /\ db[done.uid] = NoProfile

\* ===================================================================== C6
\* A successful logout started right after a successful login (the login
\* started with nothing pending; no other operation and no forced sign-out
\* from the start of the login on).
LogoutAfterLogin ==
    done.op = "logout" /\ done.outcome = "ok" /\ done.solo /\ done.after = "login"

SignedOut == user = None /\ userProfile = NoProfile

\* C6: a successful login followed immediately by a successful logout leaves
\* Session User, User Profile and error absent, and it stays so once all
\* resulting session-change notifications have been handled.
C6_LoginThenLogout ==
    (LogoutAfterLogin /\ (done.fresh \/ Quiescent)) => SignedOut /\ error = None

\* ===================================================================== C7
\* C7: right after a successful signup(email, password, role, fields),
\* hasRole(role) is true and hasRole of the other role is false, and the
\* stored and the in-memory profile carry the role and the new identifier.
C7_SignupRole ==
    (done.fresh /\ done.op = "signup" /\ done.stage = "write" /\ done.solo)
        => /\ done.outcome = "ok"
           /\ hasRole(done.role)
           /\ \A r \in Roles \ {done.role} : ~hasRole(r)
           /\ userProfile = MkProfile(done.uid, done.role)
           /\ db[done.uid] = MkProfile(done.uid, done.role)
           /\ user = done.uid

\* a signup as clinician has just succeeded
C7_Witness ==
    /\ done.fresh /\ done.op = "signup" /\ done.outcome = "ok" /\ done.solo
    /\ done.role = "clinician" /\ isClinician /\ ~isPatient

\* ===================================================================== C8
\* C8: if createAccount succeeds and the Profile Store write fails, signup
\* is rejected, error is set, the unpersisted profile is not in the
\* controller's state, and the write was attempted exactly once.
C8_SignupPersistFailure ==
    (done.fresh /\ done.op = "signup" /\ done.stage = "writefail" /\ done.solo)
        => /\ done.outcome = "fail"
           /\ done.raised # None
           /\ error # None
           /\ userProfile # MkProfile(done.uid, done.role)
           /\ db[done.uid] = NoProfile
           /\ done.writes = 1

\* the account exists, the write has failed and the signup has been rejected
C8_Witness ==
    /\ done.fresh /\ done.op = "signup" /\ done.stage = "writefail" /\ done.solo
    /\ done.uid \in accounts /\ error = MsgSignUpDefault

\* ===================================================================== C9
\* C9: during signup no state has the new account's Session User present in
\* the controller while its profile document is not yet persisted.
C9_PersistBeforeSignedIn ==
    \A i \in OpIds :
        (ops[i].op = "signup" /\ ops[i].pc = "write" /\ db[ops[i].uid] = NoProfile)
            => user # ops[i].uid

\* ==================================================================== C10
\* A successful social login that found no profile document for the
\* identifier (started with nothing pending, no other operation meanwhile).
SocialNew ==
    /\ done.op \in Social /\ done.outcome = "ok" /\ done.solo /\ done.quiet
    /\ done.writes > 0 /\ ~done.failed

\* C10: a social login for an identifier without a profile document makes
\* exactly one Profile Store write, the default profile with role patient,
\* and once the operation and the notification handlers it triggers have
\* finished isPatient is true.
C10_SocialNewIdentifier ==
    /\ (SocialNew /\ done.fresh)
          => done.writes = 1 /\ db[done.uid] = MkProfile(done.uid, "patient")
    /\ (SocialNew /\ Quiescent) => isPatient

\* ==================================================================== C11
\* A step of loginWithGoogle or handleGoogleRedirect.
SocialStep == \E i \in OpIds : /\ ops[i].op \in Social \/ ops'[i].op \in Social
                               /\ ops'[i] # ops[i]

\* C11: a social login writes the default profile only when the Profile
\* Store holds no document for the identifier: whatever the profile lookup
\* returned, no step of a social login replaces an existing document or
\* changes its role.
C11_SocialKeepsExisting ==
    [][SocialStep => \A u \in Uids : db[u] # NoProfile => db'[u] = db[u]]_vars

\* ==================================================================== C12
\* handleGoogleRedirect has just returned after getRedirectResult answered
\* that no redirect result is pending, with no other operation meanwhile.
NoResult ==
    /\ done.fresh /\ done.op = "handleRedirect" /\ done.stage = "noresult"
    /\ done.solo

\* C12: handleGoogleRedirect called with no pending redirect result returns
\* without raising and leaves Session User, User Profile, loading and error
\* as they were before the call, whatever they were.
C12_NoResultNoOp ==
    NoResult => /\ done.outcome = "ok" /\ done.raised = None
                /\ isLoading = done.preLoading
                /\ error = done.preError
                /\ done.quiet => user = done.preUser /\ userProfile = done.preProfile

\* ==================================================================== C13
\* A step that calls refreshUserProfile: the call returns at once, or its
\* getDoc is issued.
RefreshCall ==
    \/ /\ done'.fresh /\ done'.op = "refresh" /\ done' # done
       /\ done'.stage \in {"nouser", "nocurrent"}
    \/ \E i \in OpIds : ops[i].op = "idle" /\ ops'[i].op = "refresh"

\* C13: refreshUserProfile called while no Session User is present is a
\* no-op: it raises nothing, issues no Profile Store read and makes no write,
\* and leaves Session User, User Profile, loading and error unchanged.
C13_RefreshSignedOutNoOp ==
    [][(RefreshCall /\ user = None)
          => /\ done'.outcome = "ok" /\ done'.raised = None
             /\ \A i \in OpIds : ops'[i].op = ops[i].op /\ ops'[i].pc = ops[i].pc
             /\ db' = db
             /\ UNCHANGED <<user, userProfile, isLoading, error>>]_vars

\* refreshUserProfile has returned with no Session User while an error
\* message was shown, and the message is still there
C13_Witness ==
    /\ done.fresh /\ done.op = "refresh" /\ done.stage = "nouser"
    /\ user = None /\ error # None /\ NoOpsInFlight

\* ==================================================================== C14
\* The operations that begin with setError(null).
ErrorOps == {"login", "signup", "google", "redirect", "handleRedirect", "logout"}

\* A step that calls operation o and leaves it in flight.
OpStart(o) == \E i \in OpIds : ops[i].op = "idle" /\ ops'[i].op = o

\* A step with which an operation settles.
Settles == done'.fresh /\ done' # done

C15_LoadingWhileInFlight ==
    \A i \in OpIds : ops[i].op # "idle" => isLoading

\* ==================================================================== C16
\* C16: every operation restores loading = false when it completes or fails:
\* an operation that sets loading leaves it false as it settles; whenever no
\* operation and no notification handler is in flight loading is false; and,
\* every awaited call returning or failing, every operation called
\* eventually settles.
C16_LoadingRestored ==
    /\ [](Quiescent => ~isLoading)
    /\ [][(Settles /\ done'.op \in ErrorOps) => ~isLoading']_vars
    /\ \A i \in OpIds : (ops[i].op # "idle") ~> (ops[i].op = "idle")

\* a login has been rejected, nothing is left in flight and loading is false
C16_Witness ==
    /\ done.fresh /\ done.op = "login" /\ done.outcome = "fail"
    /\ Quiescent /\ ~isLoading /\ error # None

\* ==================================================================== C17
\* A logout has succeeded that overlapped exactly one login, the two called
\* with nothing else pending, and the login settled first with outcome o.
LogoutSecond(o) ==
    /\ done.op = "logout" /\ done.outcome = "ok" /\ done.quiet
    /\ done.mates = {"login"} /\ done.saw = o

\* C17: when login and logout are called concurrently and logout resolves
\* second, the controller ends in SignedOut, whether the login succeeded or
\* failed, once all work in flight has finished.
C17_LogoutWinsRace ==
    \A o \in {"ok", "fail"} : (LogoutSecond(o) /\ Quiescent) => SignedOut

\* ==================================================================== C18
\* The routing rule: what is shown for each combination of the four values.
RouterRule(loading, authenticated, patient, clinician, shown) ==
    /\ loading => shown = "LoadingScreen"
    /\ (~loading /\ ~authenticated) => shown = "AuthNavigator"
    /\ (~loading /\ authenticated /\ patient) => shown = "PatientTabNavigator"
    /\ (~loading /\ authenticated /\ ~patient /\ clinician)
          => shown = "ClinicianTabNavigator"
    /\ (~loading /\ authenticated /\ ~patient /\ ~clinician)
          => shown = "AuthNavigator"
    /\ shown \in {"PatientTabNavigator", "ClinicianTabNavigator"}
          => ~loading /\ authenticated

\* C18: the router selects its screen tree from isLoading, isAuthenticated,
\* isPatient and isClinician alone, by the rule loading, then not
\* authenticated, then patient, then clinician, else the unauthenticated
\* flow: in every state of the controller and for every combination of the
\* four values; the patient or clinician flow is never shown while loading
\* or while not authenticated.
C18_RouterRule ==
    /\ RouterRule(isLoading, isAuthenticated, isPatient, isClinician, Screen)
    /\ \A l, a, p, c \in BOOLEAN : RouterRule(l, a, p, c, AppNavigator(l, a, p, c))

\* a patient profile is present without a Session User and loading is over:
\* the unauthenticated flow is shown
C18_Witness ==
    ~isLoading /\ ~isAuthenticated /\ isPatient /\ Screen = "AuthNavigator"

\* ==================================================================== C19
\* C19: the fallback branch of the router is not reachable: every stored
\* profile having role patient or clinician, in every state with loading
\* false and a Session User present, isPatient or isClinician is true.
C19_FallbackUnreachable ==
    (~isLoading /\ user # None) => (isPatient \/ isClinician)

\* ==================================================================== C20
\* loginWithGoogleRedirect has just settled, called with nothing pending and
\* with no other operation meanwhile.
RedirectSettled ==
    done.fresh /\ done.op = "redirect" /\ done.solo /\ done.quiet

\* C20: loginWithGoogleRedirect does not change the session: on success and
\* on failure Session User and User Profile are as before the call, and on
\* success error is absent.
C20_RedirectKeepsSession ==
    RedirectSettled
        => /\ user = done.preUser /\ userProfile = done.preProfile
           /\ done.outcome = "ok" => error = None /\ done.raised = None

\* the redirect has been initiated for a signed-in user, who is still
\* signed in with the same profile
C20_Witness ==
    /\ RedirectSettled /\ done.outcome = "ok" /\ pendingRedirect # None
    /\ user # None /\ userProfile # NoProfile

\* ==================================================================== C21
\* A step that constructs the controller: the provider is mounted.
Constructed == phase = "disposed" /\ phase' = "initializing"

\* C21: handleGoogleRedirect is invoked once per app start: each
\* construction of the controller starts one call of it, so that a redirect
\* begun before the restart is completed.
C21_RedirectAtStart ==
    [][Constructed
          => \E i \in OpIds : /\ ops[i].op = "idle" /\ ops'[i].op = "handleRedirect"
                              /\ \A j \in OpIds \ {i} : ops'[j].op # "handleRedirect"]_vars

\* ==================================================================== C22
\* C22: the controller is constructed with Session User absent, User
\* Profile absent, loading true and error absent, and leaves that state only
\* through the session-change subscription: loading stays true until the
\* first session-change notification has been handled.
C22_LoadingUntilFirstNotification ==
    phase = "initializing" => isLoading

\* ==================================================================== C23
\* A step with which the session-change handler takes a notification that
\* carries a user; a step with which a profile load of the handler finishes.
TakesPresent ==
    /\ notifQ # <<>> /\ Head(notifQ) # None /\ subscribed'
    /\ notifQ' = Tail(notifQ)
LoadStarts == LoadCount' = LoadCount + 1
LoadEnds == LoadCount' = LoadCount - 1

\* C23: a session-change notification that carries a user makes the handler
\* set the Session User and then attempt the profile load; the handler
\* clears loading only when that attempt has finished (found, not found or
\* failed) and not while its load is pending.
C23_LoadBeforeLoadingCleared ==
    [][/\ TakesPresent => user' = Head(notifQ)
       /\ (TakesPresent /\ LoadStarts) => isLoading' = isLoading
       /\ (TakesPresent /\ ~LoadStarts) => userProfile' = NoProfile /\ ~isLoading'
       /\ LoadEnds => ~isLoading' /\ user' = user]_vars

\* the controller is initializing, the first notification has delivered the
\* user, the profile load is pending and loading is still true
C23_Witness ==
    /\ phase = "initializing" /\ user # None /\ LoadCount = 1 /\ notifQ = <<>>
    /\ isLoading /\ NoOpsInFlight

\* ==================================================================== C24
\* A step with which the session-change handler takes a notification that
\* carries no user.
TakesAbsent ==
    /\ notifQ # <<>> /\ Head(notifQ) = None /\ subscribed'
    /\ notifQ' = Tail(notifQ)

\* C24: a session-change notification that carries no user makes the
\* handler end, from any prior state, with Session User absent, User Profile
\* absent and loading false, and with error as it was.
C24_AbsentNotification ==
    [][TakesAbsent => /\ user' = None /\ userProfile' = NoProfile
                      /\ ~isLoading' /\ error' = error]_vars

\* a notification without a user has been handled after an operation had
\* failed: nobody is signed in, loading is over and the error message of the
\* operation is still shown
C24_Witness ==
    /\ error = MsgRedirectInit /\ done = NoEvent /\ phase = "ready"
    /\ currentUser = None /\ accounts # {} /\ notifQ = <<>> /\ Quiescent
    /\ user = None /\ userProfile = NoProfile /\ ~isLoading

\* ==================================================================== C25
\* C25: the controller holds one subscription to the session-change
\* stream, created at its construction and active until its disposal; after
\* disposal the subscription is cancelled: no notification is pending for
\* the controller or queued for it, and no handler starts.
C25_OneSubscription ==
    /\ [](subscribed <=> phase # "disposed")
    /\ [](phase = "disposed" => notifQ = <<>>)
    /\ [][phase = "disposed" /\ phase' = "disposed"
             => /\ notifQ' = <<>> /\ LoadCount' <= LoadCount
                /\ (ops' = ops /\ loads' = loads)
                      => UNCHANGED <<user, userProfile, isLoading>>]_vars

\* the provider has been disposed while a person was signed in; the
\* credential service has since ended the session and the disposed
\* controller has not been told
C25_Witness ==
    /\ phase = "disposed" /\ ~subscribed /\ notifQ = <<>>
    /\ currentUser = None /\ user # None /\ Quiescent

\* ==================================================================== C26
\* C26: whenever Session User and User Profile are both present, the
\* profile's uid is the Session User's identifier, also while a notification
\* for another user or a profile load is in flight.
C26_ProfileOfSessionUser ==
    (user # None /\ userProfile # NoProfile) => userProfile.uid = user

\* ==================================================================== C27
\* A login submitted from the form has just resolved, with no other
\* operation meanwhile.
FormLoginResolved ==
    /\ done.fresh /\ done.op = "login" /\ done.role \in Roles
    /\ done.outcome = "ok" /\ done.solo

\* C27: the role selected in the login form has no influence on the session:
\* whatever role was selected, a login that resolves leaves the Session User,
\* the User Profile, isPatient, isClinician and the routed screen tree that
\* follow from the identifier and its stored profile alone.
C27_FormRoleIgnored ==
    FormLoginResolved
        => /\ user = done.uid
           /\ userProfile = db[done.uid]
           /\ isPatient <=> db[done.uid].role = "patient"
           /\ isClinician <=> db[done.uid].role = "clinician"
           /\ Screen = AppNavigator(FALSE, TRUE, db[done.uid].role = "patient",
                                    db[done.uid].role = "clinician")

\* the form had clinician selected, the stored profile says patient: the
\* person is signed in as a patient and sees the patient flow
C27_Witness ==
    /\ FormLoginResolved /\ done.role = "clinician"
    /\ userProfile.role = "patient" /\ Screen = "PatientTabNavigator"

\* ==================================================================== C28
\* A step with which the profile read of refreshUserProfile ends without a
\* profile: no document, or the read failed.
RefreshFindsNothing ==
    /\ Settles /\ done'.op = "refresh" /\ done'.stage \in {"read", "readfail"}
    /\ done'.failed \/ ~done'.found

\* A step with which a profile load of the handler ends and there is no
\* document to find.
LoadFindsNothing ==
    LoadEnds /\ \A u \in Uids : loads'[u] < loads[u] => db[u] = NoProfile

Tracks == Len(tracked') = Len(tracked) + 1

\* C29: trackEvent emits an analytics event only if analytics consent is
\* enabled: while the preferences are absent or analytics is not enabled a
\* call of trackEvent emits no event, and every event emitted records
\* analytics_consent = true.
C29_TrackOnlyWithConsent ==
    /\ [][(Tracks /\ (preferences = NoPreferences \/ ~preferences.analytics))
             => tracked'[Len(tracked')].kind # "event"]_vars
    /\ [](\A k \in 1..Len(tracked) :
             tracked[k].kind = "event" => tracked[k].analytics_consent)

\* analytics consent was given at the start and an update that withdraws it
\* is queued: an event has been emitted, and it records the consent
C29_Witness ==
    /\ tracked # <<>> /\ tracked[1].kind = "event" /\ tracked[1].analytics_consent
    /\ preferences # NoPreferences /\ preferences.analytics
    /\ queued # <<>> /\ "analytics" \in DOMAIN queued[1] /\ ~queued[1]["analytics"]

\* ==================================================================== C30
\* A step with which a queued updater of the preferences is applied.
Renders == queued # <<>> /\ queued' = Tail(queued) /\ tracked' = tracked

\* C30: a ConsentManager constructed without initialPreferences has absent
\* preferences and keeps them absent through every updatePreferences, so
\* hasConsent is false for every type and trackEvent never emits an event;
\* with initial preferences, updatePreferences merges the given fields over
\* the previous ones.
C30_AbsentStaysAbsent ==
    /\ [](initialPreferences = NoPreferences
             => /\ preferences = NoPreferences
                /\ \A t \in ConsentTypes : ~hasConsent(t)
                /\ \A k \in 1..Len(tracked) : tracked[k].kind # "event")
    /\ [][(Renders /\ preferences # NoPreferences)
             => /\ preferences' # NoPreferences
                /\ \A f \in ConsentTypes :
                      preferences'[f] = IF f \in DOMAIN Head(queued)
                                        THEN Head(queued)[f] ELSE preferences[f]]_vars

\* initial preferences with analytics enabled, and an update of marketing has
\* been applied later: marketing has changed and analytics is still enabled
C30_Witness ==
    /\ initialPreferences # NoPreferences /\ preferences # NoPreferences
    /\ preferences.lastUpdated > 0
    /\ preferences.marketing # initialPreferences.marketing
    /\ initialPreferences.analytics /\ preferences.analytics /\ queued = <<>>

=============================================================================
